---- MODULE Spec2Model ----
(***************************************************************************)
(* Model of customerimporter (src/customerimporter/interview.go): the      *)
(* concurrent pipeline ProcessFile -> processCsv -> {csvReader,            *)
(* extractDomains x N, aggregateDomains} -> createStats.                   *)
(*                                                                         *)
(* A string is a sequence of one-character strings over Alphabet; a csv    *)
(* record is a sequence of strings; the input file is a sequence of rows,  *)
(* the first of which is the header row.                                   *)
(***************************************************************************)
EXTENDS Integers, Sequences, FiniteSets, TLC

VARIABLES
    file,            \* the input: the rows of the csv file, header first
    numWorkers,      \* runtime.NumCPU()
    fileOpen,        \* the *os.File is open (os.Open .. defer file.Close())
    pc,              \* position of ProcessFile/processCsv (the orchestrator)
    pos,             \* csv.Reader: number of rows consumed
    fieldsPerRecord, \* csv.Reader.FieldsPerRecord
    launched,        \* workers started so far by the loop of processCsv
    emailChan,       \* chan string, capacity numWorkers
    domains,         \* chan string, capacity numWorkers
    doneAggregating, \* chan struct{}
    wg,              \* sync.WaitGroup counter
    src,             \* the csvReader goroutine
    lineNum,         \* csvReader's count of the reads it has made
    wk,              \* the extractDomains goroutines
    agg,             \* the aggregateDomains goroutine
    domainMap,       \* map[string]int
    totalCustomers,  \* int
    result,          \* what ProcessFile returned: (*DomainsCount, error)
    output           \* a call of writeFile: its argument, its position, the
                     \* bufio.Writer's buffer and the content of the file

vars == <<file, numWorkers, fileOpen, pc, pos, fieldsPerRecord, launched,
          emailChan, domains, doneAggregating, wg, src, lineNum, wk, agg,
          domainMap, totalCustomers, result, output>>

-----------------------------------------------------------------------------
(* Bounds of the model *)

MaxRows == 2
MaxWorkers == 2
MaxLen == 3
MaxStats == 2
\* lineNum is kept modulo LineNumMod (it only feeds the log lines)
LineNumMod == 3

(* const EMAIL_IDX = 2 (zero-based column of the email field) *)
EMAIL_IDX == 2

-----------------------------------------------------------------------------
(* Strings *)

Alphabet == {" ", "@", "A", "a", "b"}

\* the byte value of a character: what Go's string comparison compares
Code(c) ==
    CASE c = " " -> 32
      [] c = "@" -> 64
      [] c = "A" -> 65
      [] c = "a" -> 97
      [] c = "b" -> 98

RECURSIVE StringsOfLen(_)
StringsOfLen(n) ==
    IF n = 0 THEN {<<>>}
    ELSE {Append(s, c) : s \in StringsOfLen(n - 1), c \in Alphabet}

Strings == UNION {StringsOfLen(n) : n \in 0..MaxLen}

\* Go's s < t on strings: lexicographic by byte
RECURSIVE StrLess(_, _)
StrLess(s, t) ==
    IF t = <<>> THEN FALSE
    ELSE IF s = <<>> THEN TRUE
    ELSE IF Code(Head(s)) < Code(Head(t)) THEN TRUE
    ELSE IF Code(Head(s)) > Code(Head(t)) THEN FALSE
    ELSE StrLess(Tail(s), Tail(t))

RECURSIVE TrimLeft(_)
TrimLeft(s) ==
    IF s # <<>> /\ Head(s) = " " THEN TrimLeft(Tail(s)) ELSE s

RECURSIVE TrimRight(_)
TrimRight(s) ==
    IF s # <<>> /\ s[Len(s)] = " " THEN TrimRight(SubSeq(s, 1, Len(s) - 1)) ELSE s

\* strings.TrimSpace
TrimSpace(s) == TrimRight(TrimLeft(s))

\* strings.Contains(s, "@")
Contains(s, c) == \E i \in 1..Len(s) : s[i] = c

\* strings.Index(s, c), one-based; 0 when c does not occur
Index(s, c) ==
    IF Contains(s, c)
    THEN CHOOSE i \in 1..Len(s) : s[i] = c /\ \A j \in 1..(i - 1) : s[j] # c
    ELSE 0

\* strings.SplitN(s, sep, 2): at most two parts, split at the first sep
SplitN2(s, sep) ==
    IF Index(s, sep) = 0 THEN <<s>>
    ELSE <<SubSeq(s, 1, Index(s, sep) - 1), SubSeq(s, Index(s, sep) + 1, Len(s))>>

\* strings.ToLower
ToLower(s) == [i \in 1..Len(s) |-> IF s[i] = "A" THEN "a" ELSE s[i]]

\* the mutant of extractDomain that forgets the check for a second '@'
extractDomainNoAtCheck(email) ==
    LET emailSplit == SplitN2(email, "@")
    IN IF Len(emailSplit) # 2
       THEN <<>>
       ELSE ToLower(emailSplit[2])

\* extractDomain
extractDomain(email) ==
    LET emailSplit == SplitN2(email, "@")
    IN IF Len(emailSplit) # 2 \/ Contains(emailSplit[2], "@")
       THEN <<>>
       ELSE ToLower(emailSplit[2])

-----------------------------------------------------------------------------
(* The input *)

Filler == <<"a">>

\* a row that parses into n fields, the third (if any) being the email
Rec(fields) == [kind |-> "rec", fields |-> fields]
\* a row the csv parser rejects (a bare quote, say)
BadRow == [kind |-> "bad", fields |-> <<>>]
\* a place of the stream where the underlying read fails, and fails again
\* each time it is retried (an I/O error of the file)
ReadErrorRow == [kind |-> "io", fields |-> <<>>]

\* the emails of the rows of the pipeline's inputs
EmailPool == {
    <<"a", "@", "b">>,          \* valid, domain "b"
    <<" ", "b", "@", "A">>,     \* needs trimming and lowercasing, domain "a"
    <<"b", "@", "a", "b">>,     \* valid, domain "ab"
    <<"@", "b">>,               \* empty local part
    <<"a", "b">> }              \* no '@'

\* the data rows: unparsable, two fields, or three fields ending in an email
RowsWith(emails) ==
    {BadRow, Rec(<<Filler, Filler>>)} \cup {Rec(<<Filler, Filler, e>>) : e \in emails}

\* the header rows: unparsable, two columns, or three columns of which the
\* third reads like a valid email
HeaderRows ==
    {BadRow, Rec(<<Filler, Filler>>), Rec(<<Filler, Filler, <<"a", "@", "b">>>>)}

RECURSIVE FilesOfLen(_, _)
FilesOfLen(n, rows) ==
    IF n = 0 THEN {<<>>}
    ELSE {Append(f, r) : f \in FilesOfLen(n - 1, rows), r \in rows}

\* an empty file, or a header row and at most MaxRows data rows
Files == {<<>>} \cup
    {<<h>> \o f : h \in HeaderRows,
                  f \in UNION {FilesOfLen(n, RowsWith(EmailPool)) : n \in 0..MaxRows}}

\* the same, the emails being one that is published and one that is dropped
LiveFiles == {<<>>} \cup
    {<<h>> \o f : h \in HeaderRows,
                  f \in UNION {FilesOfLen(n, RowsWith({<<"a", "@", "b">>, <<"a", "b">>})) :
                                  n \in 0..MaxRows}}

\* the inputs of the runs checked for termination, and each of them cut off
\* by a read that keeps failing
IOFiles == LiveFiles \cup {Append(f, ReadErrorRow) : f \in LiveFiles}

\* an empty file, or a three-column header and one data row with any email
EmailFiles == {<<>>} \cup
    {<<Rec(<<Filler, Filler, Filler>>), Rec(<<Filler, Filler, e>>)>> : e \in Strings}

-----------------------------------------------------------------------------
(* csv.Reader.Read: one row, or an error *)

csvReadAt(f, p, fpr) ==
    IF p >= Len(f) THEN [records |-> <<>>, err |-> "EOF"]
    ELSE LET row == f[p + 1]
         IN IF row.kind = "io" THEN [records |-> <<>>, err |-> "io"]
            ELSE IF row.kind = "bad" THEN [records |-> <<>>, err |-> "parse"]
            ELSE IF fpr > 0 /\ Len(row.fields) # fpr
            THEN [records |-> row.fields, err |-> "fieldcount"]
            ELSE [records |-> row.fields, err |-> "nil"]

\* csvreader.Read() in the current state
csvRead == csvReadAt(file, pos, fieldsPerRecord)

\* the reader's state after Read: past the row, unless the stream is at its
\* end or the read itself failed
csvAdvance ==
    /\ pos' = IF pos >= Len(file) \/ file[pos + 1].kind = "io" THEN pos ELSE pos + 1
    /\ fieldsPerRecord' =
          IF fieldsPerRecord = 0 /\ csvRead.err = "nil"
          THEN Len(csvRead.records) ELSE fieldsPerRecord

-----------------------------------------------------------------------------
(* Channels *)

NilChan == [made |-> FALSE, buf |-> <<>>, closedBy |-> <<>>]
MakeChan == [made |-> TRUE, buf |-> <<>>, closedBy |-> <<>>]
Closed(ch) == ch.closedBy # <<>>
Close(ch, who) == [ch EXCEPT !.closedBy = Append(@, who)]
Send(ch, v) == [ch EXCEPT !.buf = Append(@, v)]
Recv(ch) == [ch EXCEPT !.buf = Tail(@)]

-----------------------------------------------------------------------------
(* Errors *)

NilErr == [msg |-> "", cause |-> "nil"]
\* io.EOF itself
EOFErr == [msg |-> "", cause |-> "EOF"]
\* the error of os.Open
OpenErr == [msg |-> "", cause |-> "open"]
\* the mutant of HeaderErrorf that returns the reader's error as it is
HeaderErrorBare(err) == [msg |-> "", cause |-> err]

\* fmt.Errorf("error reading the header of csv: %v", err)
HeaderErrorf(err) == [msg |-> "error reading the header of csv: ", cause |-> err]

\* &DomainsCount{}
EmptyDomainsCount(err) ==
    [returned |-> TRUE, DomainStats |-> <<>>, TotalCount |-> 0, err |-> err]

-----------------------------------------------------------------------------
(* Initial states *)

\* writeFile has not been called
NoOutput ==
    [pc |-> "idle", domainsCount |-> [DomainStats |-> <<>>, TotalCount |-> 0],
     i |-> 0, buf |-> <<>>, disk |-> <<>>, open |-> FALSE, err |-> "nil"]

NoResult == [returned |-> FALSE, DomainStats |-> <<>>, TotalCount |-> 0, err |-> NilErr]

InitWith(files) ==
    /\ file \in files
    /\ numWorkers \in 1..MaxWorkers
    /\ fileOpen = FALSE
    /\ pc = "open"
    /\ pos = 0
    /\ fieldsPerRecord = 0
    /\ launched = 0
    /\ emailChan = NilChan
    /\ domains = NilChan
    /\ doneAggregating = NilChan
    /\ wg = 0
    /\ src = [pc |-> "idle", email |-> <<>>]
    /\ lineNum = 0
    /\ wk = [w \in 1..numWorkers |-> [pc |-> "idle", domain |-> <<>>]]
    /\ agg = [pc |-> "idle", domain |-> <<>>]
    /\ domainMap = <<>>
    /\ totalCustomers = 0
    /\ result = NoResult
    /\ output = NoOutput

Init == InitWith(Files)

InitEmail == InitWith(EmailFiles)

InitLive == InitWith(LiveFiles)
InitIO == InitWith(IOFiles)

-----------------------------------------------------------------------------
(* createStats *)

\* the orders in which a range over the map may visit its keys
IterationOrders(m) ==
    {o \in [1..Cardinality(DOMAIN m) -> DOMAIN m] :
        \A i, j \in 1..Cardinality(DOMAIN m) : o[i] = o[j] => i = j}

\* less of sort.Slice: domainStats[i].Name < domainStats[j].Name
less(x, y) == StrLess(x.Name, y.Name)

RECURSIVE InsertSorted(_, _)
InsertSorted(sorted, x) ==
    IF sorted = <<>> THEN <<x>>
    ELSE IF less(x, Head(sorted)) THEN <<x>> \o sorted
    ELSE <<Head(sorted)>> \o InsertSorted(Tail(sorted), x)

RECURSIVE SortSlice(_)
SortSlice(s) ==
    IF s = <<>> THEN <<>>
    ELSE InsertSorted(SortSlice(SubSeq(s, 1, Len(s) - 1)), s[Len(s)])

\* the mutant of createStats that returns the entries in map iteration order
createStatsNoSort(m, order) ==
    [i \in 1..Len(order) |-> [Name |-> order[i], Count |-> m[order[i]]]]

\* createStats(domainMap), the range visiting the keys in the given order
createStats(m, order) ==
    SortSlice([i \in 1..Len(order) |-> [Name |-> order[i], Count |-> m[order[i]]]])

-----------------------------------------------------------------------------
(* ProcessFile and processCsv: the orchestrator *)

Running == pc # "crashed"

\* os.Open(filePath): the environment decides whether the file can be opened
OpenFile ==
    /\ pc = "open"
    /\ \E ok \in BOOLEAN :
          IF ok
          THEN /\ fileOpen' = TRUE
               /\ pc' = "header"
               /\ UNCHANGED result
          ELSE /\ fileOpen' = FALSE
               /\ pc' = "returned"
               /\ result' = EmptyDomainsCount(OpenErr)
    /\ UNCHANGED <<output, lineNum, file, numWorkers, pos, fieldsPerRecord, launched, emailChan,
                   domains, doneAggregating, wg, src, wk, agg, domainMap,
                   totalCustomers>>

\* the mutant of ReadHeader that checks the header with a reader of its own,
\* so that the Source's reader starts at the first row
ReadHeaderPeeks ==
    /\ pc = "header"
    /\ IF csvRead.err # "nil"
       THEN /\ pc' = "returned"
            /\ fileOpen' = FALSE
            /\ result' = EmptyDomainsCount(HeaderErrorf(csvRead.err))
       ELSE /\ pc' = "make"
            /\ UNCHANGED <<fileOpen, result>>
    /\ UNCHANGED <<output, lineNum, file, numWorkers, launched, emailChan, domains,
                   doneAggregating, wg, src, wk, agg, domainMap, totalCustomers,
                   pos, fieldsPerRecord>>

\* csv.NewReader(reader); _, err := csvreader.Read(); on an error processCsv
\* returns nil, 0, the wrapped error and ProcessFile returns &DomainsCount{}
ReadHeader ==
    /\ pc = "header"
    /\ csvAdvance
    /\ IF csvRead.err # "nil"
       THEN /\ pc' = "returned"
            /\ fileOpen' = FALSE
            /\ result' = EmptyDomainsCount(HeaderErrorf(csvRead.err))
       ELSE /\ pc' = "make"
            /\ UNCHANGED <<fileOpen, result>>
    /\ UNCHANGED <<output, lineNum, file, numWorkers, launched, emailChan, domains,
                   doneAggregating, wg, src, wk, agg, domainMap, totalCustomers>>

\* emailChan := make(chan string, numWorkers); domains := make(...)
MakeChans ==
    /\ pc = "make"
    /\ emailChan' = MakeChan
    /\ domains' = MakeChan
    /\ pc' = "goSource"
    /\ UNCHANGED <<output, lineNum, file, numWorkers, fileOpen, pos, fieldsPerRecord, launched,
                   doneAggregating, wg, src, wk, agg, domainMap, totalCustomers,
                   result>>

\* wg.Add(1); go csvReader(csvreader, emailChan, &wg)
LaunchSource ==
    /\ pc = "goSource"
    /\ wg' = wg + 1
    /\ src' = [src EXCEPT !.pc = "read"]
    /\ pc' = "goWorkers"
    /\ UNCHANGED <<output, lineNum, file, numWorkers, fileOpen, pos, fieldsPerRecord, launched,
                   emailChan, domains, doneAggregating, wk, agg, domainMap,
                   totalCustomers, result>>

\* the mutant of LaunchWorker that calls wg.Add(1) for the first worker only
LaunchWorkerAddOnce ==
    /\ pc = "goWorkers"
    /\ launched < numWorkers
    /\ wg' = IF launched = 0 THEN wg + 1 ELSE wg
    /\ launched' = launched + 1
    /\ wk' = [wk EXCEPT ![launched + 1].pc = "recv"]
    /\ pc' = IF launched + 1 = numWorkers THEN "goAgg" ELSE "goWorkers"
    /\ UNCHANGED <<output, lineNum, file, numWorkers, fileOpen, pos, fieldsPerRecord, emailChan,
                   domains, doneAggregating, src, agg, domainMap,
                   totalCustomers, result>>

\* for range numWorkers { wg.Add(1); go extractDomains(domains, emailChan, &wg) }
LaunchWorker ==
    /\ pc = "goWorkers"
    /\ launched < numWorkers
    /\ wg' = wg + 1
    /\ launched' = launched + 1
    /\ wk' = [wk EXCEPT ![launched + 1].pc = "recv"]
    /\ pc' = IF launched + 1 = numWorkers THEN "goAgg" ELSE "goWorkers"
    /\ UNCHANGED <<output, lineNum, file, numWorkers, fileOpen, pos, fieldsPerRecord, emailChan,
                   domains, doneAggregating, src, agg, domainMap,
                   totalCustomers, result>>

\* domainMap := make(map[string]int); totalCustomers := 0;
\* doneAggregating := make(chan struct{}); go aggregateDomains(...)
LaunchAggregator ==
    /\ pc = "goAgg"
    /\ domainMap' = <<>>
    /\ totalCustomers' = 0
    /\ doneAggregating' = MakeChan
    /\ agg' = [agg EXCEPT !.pc = "recv"]
    /\ pc' = "wait"
    /\ UNCHANGED <<output, lineNum, file, numWorkers, fileOpen, pos, fieldsPerRecord, launched,
                   emailChan, domains, wg, src, wk, result>>

\* the mutant of WaitGroupZero that does not wait for the workers
WaitGroupIgnored == TRUE

\* what wg.Wait() waits for
WaitGroupZero == wg = 0

\* wg.Wait()
WaitWorkers ==
    /\ pc = "wait"
    /\ WaitGroupZero
    /\ pc' = "close"
    /\ UNCHANGED <<output, lineNum, file, numWorkers, fileOpen, pos, fieldsPerRecord, launched,
                   emailChan, domains, doneAggregating, wg, src, wk, agg,
                   domainMap, totalCustomers, result>>

\* close(domains)
CloseDomains ==
    /\ pc = "close"
    /\ domains' = Close(domains, "orchestrator")
    /\ pc' = "waitAgg"
    /\ UNCHANGED <<output, lineNum, file, numWorkers, fileOpen, pos, fieldsPerRecord, launched,
                   emailChan, doneAggregating, wg, src, wk, agg, domainMap,
                   totalCustomers, result>>

\* the mutant of WaitAggregator that returns without <-doneAggregating
WaitAggregatorSkips ==
    /\ pc = "waitAgg"
    /\ pc' = "stats"
    /\ UNCHANGED <<output, lineNum, file, numWorkers, fileOpen, pos, fieldsPerRecord, launched,
                   emailChan, domains, doneAggregating, wg, src, wk, agg,
                   domainMap, totalCustomers, result>>

\* <-doneAggregating; return domainMap, totalCustomers, nil
WaitAggregator ==
    /\ pc = "waitAgg"
    /\ Closed(doneAggregating)
    /\ pc' = "stats"
    /\ UNCHANGED <<output, lineNum, file, numWorkers, fileOpen, pos, fieldsPerRecord, launched,
                   emailChan, domains, doneAggregating, wg, src, wk, agg,
                   domainMap, totalCustomers, result>>

\* domainStats := createStats(domainMap); return &DomainsCount{...}, nil
\* (and the deferred file.Close())
ReturnStats ==
    /\ pc = "stats"
    /\ \E order \in IterationOrders(domainMap) :
          result' = [returned |-> TRUE,
                     DomainStats |-> createStats(domainMap, order),
                     TotalCount |-> totalCustomers,
                     err |-> NilErr]
    /\ fileOpen' = FALSE
    /\ pc' = "returned"
    /\ UNCHANGED <<output, lineNum, file, numWorkers, pos, fieldsPerRecord, launched, emailChan,
                   domains, doneAggregating, wg, src, wk, agg, domainMap,
                   totalCustomers>>

-----------------------------------------------------------------------------
(* csvReader: the Source *)

\* the mutant of SourceRead that leaves the loop on a read error
SourceReadBreaksOnError ==
    /\ Running
    /\ src.pc = "read"
    /\ csvAdvance
    /\ lineNum' = (lineNum + 1) % LineNumMod
    /\ src' = IF csvRead.err # "nil" THEN [src EXCEPT !.pc = "eof"]
              ELSE IF Len(csvRead.records) <= EMAIL_IDX THEN src
              ELSE [pc |-> "send", email |-> csvRead.records[EMAIL_IDX + 1]]
    /\ UNCHANGED <<output, file, numWorkers, fileOpen, pc, launched, emailChan, domains,
                   doneAggregating, wg, wk, agg, domainMap, totalCustomers,
                   result>>

\* records, err := csvreader.Read(); lineNum++ and the checks on what Read
\* returned
SourceRead ==
    /\ Running
    /\ src.pc = "read"
    /\ csvAdvance
    /\ lineNum' = (lineNum + 1) % LineNumMod
    /\ src' = IF csvRead.err = "EOF" THEN [src EXCEPT !.pc = "eof"]
              ELSE IF csvRead.err # "nil" THEN src
              ELSE IF Len(csvRead.records) <= EMAIL_IDX THEN src
              ELSE [pc |-> "send", email |-> csvRead.records[EMAIL_IDX + 1]]
    /\ UNCHANGED <<output, file, numWorkers, fileOpen, pc, launched, emailChan, domains,
                   doneAggregating, wg, wk, agg, domainMap, totalCustomers,
                   result>>

\* a send into a channel without a capacity: the Source never blocks
SourceSendUnbounded ==
    /\ Running
    /\ src.pc = "send"
    /\ IF Closed(emailChan)
       THEN /\ src' = [src EXCEPT !.pc = "panic"]
            /\ pc' = "crashed"
            /\ UNCHANGED emailChan
       ELSE /\ emailChan' = Send(emailChan, src.email)
            /\ src' = [pc |-> "read", email |-> <<>>]
            /\ UNCHANGED pc
    /\ UNCHANGED <<output, lineNum, file, numWorkers, fileOpen, pos, fieldsPerRecord, launched,
                   domains, doneAggregating, wg, wk, agg, domainMap,
                   totalCustomers, result>>

\* emailChan <- records[EMAIL_IDX]
SourceSend ==
    /\ Running
    /\ src.pc = "send"
    /\ IF Closed(emailChan)
       THEN /\ src' = [src EXCEPT !.pc = "panic"]
            /\ pc' = "crashed"
            /\ UNCHANGED emailChan
       ELSE /\ Len(emailChan.buf) < numWorkers
            /\ emailChan' = Send(emailChan, src.email)
            /\ src' = [pc |-> "read", email |-> <<>>]
            /\ UNCHANGED pc
    /\ UNCHANGED <<output, lineNum, file, numWorkers, fileOpen, pos, fieldsPerRecord, launched,
                   domains, doneAggregating, wg, wk, agg, domainMap,
                   totalCustomers, result>>

\* the mutant of SourceClose that leaves emailChan open
SourceCloseForgotten ==
    /\ Running
    /\ src.pc = "eof"
    /\ src' = [src EXCEPT !.pc = "closed"]
    /\ UNCHANGED <<output, lineNum, file, numWorkers, fileOpen, pc, pos, fieldsPerRecord,
                   launched, emailChan, domains, doneAggregating, wg, wk, agg,
                   domainMap, totalCustomers, result>>

\* defer close(emailChan)
SourceClose ==
    /\ Running
    /\ src.pc = "eof"
    /\ emailChan' = Close(emailChan, "source")
    /\ src' = [src EXCEPT !.pc = "closed"]
    /\ UNCHANGED <<output, lineNum, file, numWorkers, fileOpen, pc, pos, fieldsPerRecord,
                   launched, domains, doneAggregating, wg, wk, agg, domainMap,
                   totalCustomers, result>>

\* defer wg.Done()
SourceDone ==
    /\ Running
    /\ src.pc = "closed"
    /\ wg' = wg - 1
    /\ src' = [src EXCEPT !.pc = "done"]
    /\ UNCHANGED <<output, lineNum, file, numWorkers, fileOpen, pc, pos, fieldsPerRecord,
                   launched, emailChan, domains, doneAggregating, wk, agg,
                   domainMap, totalCustomers, result>>

-----------------------------------------------------------------------------
(* extractDomains: the workers *)

\* a worker that publishes the empty sentinel too (no "if domain != \"\"")
WorkerRecvNoFilter(w) ==
    /\ Running
    /\ wk[w].pc = "recv"
    /\ emailChan.buf # <<>>
    /\ emailChan' = Recv(emailChan)
    /\ wk' = [wk EXCEPT ![w] = [pc |-> "send",
                 domain |-> extractDomain(TrimSpace(Head(emailChan.buf)))]]
    /\ UNCHANGED <<output, lineNum, file, numWorkers, fileOpen, pc, pos, fieldsPerRecord,
                   launched, domains, doneAggregating, wg, src, agg, domainMap,
                   totalCustomers, result>>

\* one iteration of for email := range emailChan up to the send:
\* domain := extractDomain(strings.TrimSpace(email)); if domain == "" { log }
WorkerRecv(w) ==
    /\ Running
    /\ wk[w].pc = "recv"
    /\ emailChan.buf # <<>>
    /\ emailChan' = Recv(emailChan)
    /\ LET domain == extractDomain(TrimSpace(Head(emailChan.buf)))
       IN wk' = IF domain = <<>> THEN wk
                ELSE [wk EXCEPT ![w] = [pc |-> "send", domain |-> domain]]
    /\ UNCHANGED <<output, lineNum, file, numWorkers, fileOpen, pc, pos, fieldsPerRecord,
                   launched, domains, doneAggregating, wg, src, agg, domainMap,
                   totalCustomers, result>>

\* domains <- domain
WorkerSend(w) ==
    /\ Running
    /\ wk[w].pc = "send"
    /\ IF Closed(domains)
       THEN /\ wk' = [wk EXCEPT ![w].pc = "panic"]
            /\ pc' = "crashed"
            /\ UNCHANGED domains
       ELSE /\ Len(domains.buf) < numWorkers
            /\ domains' = Send(domains, wk[w].domain)
            /\ wk' = [wk EXCEPT ![w] = [pc |-> "recv", domain |-> <<>>]]
            /\ UNCHANGED pc
    /\ UNCHANGED <<output, lineNum, file, numWorkers, fileOpen, pos, fieldsPerRecord, launched,
                   emailChan, doneAggregating, wg, src, agg, domainMap,
                   totalCustomers, result>>

\* the mutant of WorkerDone in which each worker closes domains as it leaves
WorkerDoneClosesDomains(w) ==
    /\ Running
    /\ wk[w].pc = "recv"
    /\ emailChan.buf = <<>>
    /\ Closed(emailChan)
    /\ wg' = wg - 1
    /\ domains' = Close(domains, "worker")
    /\ wk' = [wk EXCEPT ![w].pc = "done"]
    /\ UNCHANGED <<output, lineNum, file, numWorkers, fileOpen, pc, pos, fieldsPerRecord,
                   launched, emailChan, doneAggregating, src, agg,
                   domainMap, totalCustomers, result>>

\* the range ends: emailChan is closed and drained; defer wg.Done()
WorkerDone(w) ==
    /\ Running
    /\ wk[w].pc = "recv"
    /\ emailChan.buf = <<>>
    /\ Closed(emailChan)
    /\ wg' = wg - 1
    /\ wk' = [wk EXCEPT ![w].pc = "done"]
    /\ UNCHANGED <<output, lineNum, file, numWorkers, fileOpen, pc, pos, fieldsPerRecord,
                   launched, emailChan, domains, doneAggregating, src, agg,
                   domainMap, totalCustomers, result>>

-----------------------------------------------------------------------------
(* aggregateDomains: the Aggregator *)

\* the mutant of Increment that starts a new map on an unseen key
IncrementFresh(m, d) ==
    IF d \in DOMAIN m THEN [m EXCEPT ![d] = @ + 1] ELSE (d :> 1)

\* domainMap[domain]++ (a missing key reads as 0)
Increment(m, d) ==
    IF d \in DOMAIN m THEN [m EXCEPT ![d] = @ + 1] ELSE m @@ (d :> 1)

\* for domain := range domains: a domain is received
AggRecv ==
    /\ Running
    /\ agg.pc = "recv"
    /\ domains.buf # <<>>
    /\ domains' = Recv(domains)
    /\ agg' = [pc |-> "incMap", domain |-> Head(domains.buf)]
    /\ UNCHANGED <<output, lineNum, file, numWorkers, fileOpen, pc, pos, fieldsPerRecord,
                   launched, emailChan, doneAggregating, wg, src, wk,
                   domainMap, totalCustomers, result>>

\* domainMap[domain]++
AggIncMap ==
    /\ Running
    /\ agg.pc = "incMap"
    /\ domainMap' = Increment(domainMap, agg.domain)
    /\ agg' = [agg EXCEPT !.pc = "incTotal"]
    /\ UNCHANGED <<output, lineNum, file, numWorkers, fileOpen, pc, pos, fieldsPerRecord,
                   launched, emailChan, domains, doneAggregating, wg, src, wk,
                   totalCustomers, result>>

\* *totalCustomers++
AggIncTotal ==
    /\ Running
    /\ agg.pc = "incTotal"
    /\ totalCustomers' = totalCustomers + 1
    /\ agg' = [pc |-> "recv", domain |-> <<>>]
    /\ UNCHANGED <<output, lineNum, file, numWorkers, fileOpen, pc, pos, fieldsPerRecord,
                   launched, emailChan, domains, doneAggregating, wg, src, wk,
                   domainMap, result>>

\* the range ends: domains is closed and drained; defer close(doneAggregating)
AggDone ==
    /\ Running
    /\ agg.pc = "recv"
    /\ domains.buf = <<>>
    /\ Closed(domains)
    /\ doneAggregating' = Close(doneAggregating, "aggregator")
    /\ agg' = [agg EXCEPT !.pc = "done"]
    /\ UNCHANGED <<output, lineNum, file, numWorkers, fileOpen, pc, pos, fieldsPerRecord,
                   launched, emailChan, domains, wg, src, wk, domainMap,
                   totalCustomers, result>>

-----------------------------------------------------------------------------
(* Specifications *)

Next ==
    \/ OpenFile
    \/ ReadHeader
    \/ MakeChans
    \/ LaunchSource
    \/ LaunchWorker
    \/ LaunchAggregator
    \/ WaitWorkers
    \/ CloseDomains
    \/ WaitAggregator
    \/ ReturnStats
    \/ SourceRead
    \/ SourceSend
    \/ SourceClose
    \/ SourceDone
    \/ \E w \in 1..numWorkers : WorkerRecv(w)
    \/ \E w \in 1..numWorkers : WorkerSend(w)
    \/ \E w \in 1..numWorkers : WorkerDone(w)
    \/ AggRecv
    \/ AggIncMap
    \/ AggIncTotal
    \/ AggDone

\* the pipeline on files of at most MaxRows data rows
Spec == Init /\ [][Next]_vars

\* the pipeline on one data row carrying an arbitrary email
SpecEmail == InitEmail /\ [][Next]_vars

\* the pipeline under the Go scheduler, of which this much is assumed: while
\* some goroutine can take a step, some goroutine does
FairSpec == InitLive /\ [][Next]_vars /\ WF_vars(Next)

\* the same runs on streams whose reads may keep failing
FairIOSpec == InitIO /\ [][Next]_vars /\ WF_vars(Next)

-----------------------------------------------------------------------------
(* writeFile *)

pipeline == <<file, numWorkers, fileOpen, pc, pos, fieldsPerRecord, launched,
              emailChan, domains, doneAggregating, wg, src, lineNum, wk, agg,
              domainMap, totalCustomers, result>>

\* one decimal digit, as %d prints it
Digit(d) ==
    CASE d = 0 -> "0" [] d = 1 -> "1" [] d = 2 -> "2" [] d = 3 -> "3"
      [] d = 4 -> "4" [] d = 5 -> "5" [] d = 6 -> "6" [] d = 7 -> "7"
      [] d = 8 -> "8" [] d = 9 -> "9"

\* %d of a number that is not negative
RECURSIVE Itoa(_)
Itoa(n) == IF n < 10 THEN <<Digit(n)>> ELSE Itoa(n \div 10) \o <<Digit(n % 10)>>

\* fmt.Sprintf("Total number of customers: %d\n", domainsCount.TotalCount)
HeaderLine(dc) == <<"Total number of customers: ">> \o Itoa(dc.TotalCount) \o <<"\n">>

\* fmt.Sprintf(OUTPUT_LINE_FORMAT, domainStat.Name, domainStat.Count)
DomainLine(stat) ==
    <<"Domain: ">> \o stat.Name \o <<", Customers: ">> \o Itoa(stat.Count) \o <<"\n">>

\* the reports writeFile is called with
StatPool ==
    {[Name |-> <<"a">>, Count |-> 1],
     [Name |-> <<"a", "b">>, Count |-> 12],
     [Name |-> <<"b">>, Count |-> 3]}

Reports ==
    [DomainStats : UNION {FilesOfLen(n, StatPool) : n \in 0..MaxStats},
     TotalCount : {0, 5, 16}]

\* what the file at filePath holds before the call
OldContents == {<<>>, <<"old", "\n">>}

\* writer.WriteString(s) on a bufio.Writer over the file: s is buffered, or
\* the buffer is full and is written to the file first, or that write fails
WriteString(s, how) ==
    CASE how = "buffered" -> [output EXCEPT !.buf = @ \o s]
      [] how = "spilled" -> [output EXCEPT !.disk = @ \o output.buf, !.buf = s]
      [] how = "failed" -> [output EXCEPT !.err = "write", !.pc = "done", !.open = FALSE]

\* the mutant of WriteOpen that opens the file without os.O_TRUNC
WriteOpenNoTrunc ==
    /\ output.pc = "open"
    /\ \E ok \in BOOLEAN :
          output' = IF ok
                    THEN [output EXCEPT !.pc = "header", !.open = TRUE]
                    ELSE [output EXCEPT !.pc = "done", !.err = "open"]
    /\ UNCHANGED pipeline

\* os.OpenFile(*filePath, os.O_WRONLY|os.O_CREATE|os.O_TRUNC, 0644)
WriteOpen ==
    /\ output.pc = "open"
    /\ \E ok \in BOOLEAN :
          output' = IF ok
                    THEN [output EXCEPT !.pc = "header", !.open = TRUE, !.disk = <<>>]
                    ELSE [output EXCEPT !.pc = "done", !.err = "open"]
    /\ UNCHANGED pipeline

\* writer := bufio.NewWriter(file); header := ...; writer.WriteString(header)
WriteHeader ==
    /\ output.pc = "header"
    /\ \E how \in {"buffered", "spilled", "failed"} :
          output' = IF how = "failed" THEN WriteString(<<>>, how)
                    ELSE [WriteString(HeaderLine(output.domainsCount), how)
                             EXCEPT !.pc = "lines", !.i = 1]
    /\ UNCHANGED pipeline

\* for _, domainStat := range domainsCount.DomainStats { line := ...;
\* writer.WriteString(line) }
WriteLine ==
    /\ output.pc = "lines"
    /\ output.i <= Len(output.domainsCount.DomainStats)
    /\ \E how \in {"buffered", "spilled", "failed"} :
          output' = IF how = "failed" THEN WriteString(<<>>, how)
                    ELSE [WriteString(DomainLine(output.domainsCount.DomainStats[output.i]), how)
                             EXCEPT !.i = @ + 1]
    /\ UNCHANGED pipeline

\* writer.Flush(); return nil (and the deferred file.Close())
WriteFlush ==
    /\ output.pc = "lines"
    /\ output.i > Len(output.domainsCount.DomainStats)
    /\ \E ok \in BOOLEAN :
          output' = IF ok
                    THEN [output EXCEPT !.disk = @ \o output.buf, !.buf = <<>>,
                                        !.pc = "done", !.open = FALSE]
                    ELSE [output EXCEPT !.err = "flush", !.pc = "done", !.open = FALSE]
    /\ UNCHANGED pipeline

WriteNext == WriteOpen \/ WriteHeader \/ WriteLine \/ WriteFlush

\* writeFile(domainsCount, &filePath) has been called
InitWrite ==
    /\ file = <<>>
    /\ numWorkers = 1
    /\ fileOpen = FALSE
    /\ pc = "open"
    /\ pos = 0
    /\ fieldsPerRecord = 0
    /\ launched = 0
    /\ emailChan = NilChan
    /\ domains = NilChan
    /\ doneAggregating = NilChan
    /\ wg = 0
    /\ src = [pc |-> "idle", email |-> <<>>]
    /\ lineNum = 0
    /\ wk = [w \in 1..numWorkers |-> [pc |-> "idle", domain |-> <<>>]]
    /\ agg = [pc |-> "idle", domain |-> <<>>]
    /\ domainMap = <<>>
    /\ totalCustomers = 0
    /\ result = NoResult
    /\ \E dc \in Reports, old \in OldContents :
          output = [NoOutput EXCEPT !.pc = "open", !.domainsCount = dc, !.disk = old]

\* writeFile on every report of at most MaxStats domains
SpecWrite == InitWrite /\ [][WriteNext]_vars

-----------------------------------------------------------------------------
(* What the claims speak of *)

\* ProcessFile has returned
Returned == pc = "returned" /\ result.returned
\* ... without an error
ReturnedOk == Returned /\ result.err = NilErr

\* the data rows of the input: the rows after the header
DataRows == 2..Len(file)

\* the header row cannot be read: there is none, or it does not parse
HeaderUnreadable == file = <<>> \/ file[1].kind = "bad"

\* csvreader.Read() returns row i without an error (the reader expects every
\* row to have as many fields as the first one)
Parses(i) ==
    /\ file[i].kind = "rec"
    /\ Len(file[i].fields) = Len(file[1].fields)

\* row i has an email field
HasEmail(i) == Parses(i) /\ Len(file[i].fields) >= 3

\* the email field of row i, trimmed
TrimmedEmail(i) == TrimSpace(file[i].fields[3])

AtCount(s) == Cardinality({i \in 1..Len(s) : s[i] = "@"})

\* the text before and after the first '@' of a string that has one
LocalPart(s) == SubSeq(s, 1, (CHOOSE i \in 1..Len(s) : s[i] = "@" /\ \A j \in 1..(i - 1) : s[j] # "@") - 1)
DomainPart(s) == SubSeq(s, (CHOOSE i \in 1..Len(s) : s[i] = "@" /\ \A j \in 1..(i - 1) : s[j] # "@") + 1, Len(s))

\* a valid email: exactly one '@', something before it and something after it
ValidEmail(s) ==
    /\ AtCount(s) = 1
    /\ LocalPart(s) # <<>>
    /\ DomainPart(s) # <<>>

\* the keys and counts of the report, as a set of pairs
StatPairs(stats) == {<<stats[i].Name, stats[i].Count>> : i \in 1..Len(stats)}
MapPairs(m) == {<<d, m[d]>> : d \in DOMAIN m}

\* the data rows with a valid email of domain d
RowsOfDomain(d) ==
    {i \in DataRows : HasEmail(i) /\ ValidEmail(TrimmedEmail(i))
                      /\ ToLower(DomainPart(TrimmedEmail(i))) = d}
RowsWithValidEmail == {i \in DataRows : HasEmail(i) /\ ValidEmail(TrimmedEmail(i))}

\* the data rows the code counts: those whose email extractDomain accepts
RowsExtracted == {i \in DataRows : HasEmail(i) /\ extractDomain(TrimmedEmail(i)) # <<>>}
RowsExtractedTo(d) == {i \in RowsExtracted : extractDomain(TrimmedEmail(i)) = d}

\* the one email of an input of one three-column data row
OneEmail == file[2].fields[3]
HasOneEmail == Len(file) = 2 /\ HasEmail(2)

\* every place a domain can be on its way to, or in, the aggregate
DomainsInFlight ==
    {domains.buf[i] : i \in 1..Len(domains.buf)}
    \cup {wk[w].domain : w \in {v \in 1..numWorkers : wk[v].pc = "send"}}
    \cup (IF agg.pc \in {"incMap", "incTotal"} THEN {agg.domain} ELSE {})
    \cup DOMAIN domainMap

-----------------------------------------------------------------------------
(* C1: when ProcessFile returns without an error, every domain of the report
   carries the number of data rows whose trimmed email field is a valid email
   (exactly one '@', non-empty local part, non-empty domain) of that domain,
   every such domain is in the report, and TotalCount is the number of data
   rows with a valid email. *)
C1_CountsValidEmails ==
    ReturnedOk =>
        /\ result.TotalCount = Cardinality(RowsWithValidEmail)
        /\ \A i \in 1..Len(result.DomainStats) :
              result.DomainStats[i].Count =
                  Cardinality(RowsOfDomain(result.DomainStats[i].Name))
        /\ \A r \in RowsWithValidEmail :
              \E i \in 1..Len(result.DomainStats) :
                  result.DomainStats[i].Name = ToLower(DomainPart(TrimmedEmail(r)))

(* C2: the DomainStats ProcessFile returns have exactly one entry per key of
   the aggregate map, each with that key's count, and are strictly ascending
   by name in byte order. *)
C2_StatsSortedOnePerKey ==
    ReturnedOk =>
        /\ Len(result.DomainStats) = Cardinality(DOMAIN domainMap)
        /\ StatPairs(result.DomainStats) = MapPairs(domainMap)
        /\ \A i \in 1..(Len(result.DomainStats) - 1) :
              StrLess(result.DomainStats[i].Name, result.DomainStats[i + 1].Name)

\* C2's case: a report of several domains has been returned
C2_Witness == ReturnedOk /\ Len(result.DomainStats) >= 2 /\ numWorkers >= 2

(* C3: for an email that does not start with '@', extractDomain returns the
   lowercased text after the '@' when there is exactly one '@' with text
   after it, and the empty string otherwise; the empty string never travels
   to the Aggregator; and the run over that one row ends with exactly that
   domain counted once, or with nothing counted. *)
C3_ExtractDomain ==
    HasOneEmail =>
        /\ (OneEmail = <<>> \/ Head(OneEmail) # "@") =>
              extractDomain(OneEmail) =
                  IF AtCount(OneEmail) = 1 /\ DomainPart(OneEmail) # <<>>
                  THEN ToLower(DomainPart(OneEmail)) ELSE <<>>
        /\ <<>> \notin DomainsInFlight
        /\ (ReturnedOk /\ (TrimmedEmail(2) = <<>> \/ Head(TrimmedEmail(2)) # "@")) =>
              domainMap =
                  IF AtCount(TrimmedEmail(2)) = 1 /\ DomainPart(TrimmedEmail(2)) # <<>>
                  THEN (ToLower(DomainPart(TrimmedEmail(2))) :> 1) ELSE <<>>

\* C3's case: an email with an upper-case domain has been extracted and counted
C3_Witness ==
    /\ HasOneEmail
    /\ OneEmail = <<"b", "@", "A">>
    /\ ReturnedOk
    /\ domainMap = (<<"a">> :> 1)

(* C4: an email that starts with '@' yields no domain: nothing derived from
   its row is ever held by a worker, in the domain channel, held by the
   Aggregator or counted. *)
C4_EmptyLocalPartInvalid ==
    (HasOneEmail /\ TrimmedEmail(2) # <<>> /\ Head(TrimmedEmail(2)) = "@") =>
        /\ DomainsInFlight = {}
        /\ totalCustomers = 0
        /\ result.TotalCount = 0

(* C5: on every failure path of ProcessFile (the open fails, or the header row
   cannot be read) the error is non-nil and the result is empty; a header
   failure is the wrapper "error reading the header of csv: ..." and not
   io.EOF itself; no task has been started and no channel made. A run fails
   on these paths only. *)
C5_FailurePaths ==
    /\ (Returned /\ HeaderUnreadable) => result.err # NilErr
    /\ (Returned /\ result.err # NilErr) =>
          /\ result.TotalCount = 0
          /\ result.DomainStats = <<>>
          /\ result.err = OpenErr \/ HeaderUnreadable
          /\ result.err # OpenErr =>
                /\ result.err.msg = "error reading the header of csv: "
                /\ result.err # EOFErr
          /\ src.pc = "idle" /\ agg.pc = "idle"
          /\ \A w \in 1..numWorkers : wk[w].pc = "idle"
          /\ ~emailChan.made /\ ~domains.made /\ ~doneAggregating.made
          /\ wg = 0

\* C5's case: ProcessFile has returned from an empty file
C5_Witness ==
    /\ Returned
    /\ file = <<>>
    /\ result.err = HeaderErrorf("EOF")

-----------------------------------------------------------------------------
(* The pipeline run by one task, row after row *)

\* the domain row i of file f yields, or <<>> when the row is skipped
RowDomain(f, i) ==
    LET r == csvReadAt(f, i - 1, Len(f[1].fields))
    IN IF r.err # "nil" \/ Len(r.records) <= EMAIL_IDX THEN <<>>
       ELSE extractDomain(TrimSpace(r.records[EMAIL_IDX + 1]))

\* the aggregate after the rows 2..n of f, taken in order
RECURSIVE SeqAggregate(_, _)
SeqAggregate(f, n) ==
    IF n <= 1 THEN [m |-> <<>>, total |-> 0]
    ELSE LET prev == SeqAggregate(f, n - 1)
             d == RowDomain(f, n)
         IN IF d = <<>> THEN prev
            ELSE [m |-> Increment(prev.m, d), total |-> prev.total + 1]

SequentialReport(f) ==
    LET a == SeqAggregate(f, Len(f))
    IN [m |-> a.m,
        DomainStats |-> createStats(a.m, CHOOSE o \in IterationOrders(a.m) : TRUE),
        TotalCount |-> a.total]

\* file with its data rows rearranged by p, a permutation of DataRows
Rearranged(p) == [i \in 1..Len(file) |-> IF i = 1 THEN file[1] ELSE file[p[i]]]
Rearrangements == {p \in [DataRows -> DataRows] : \A i, j \in DataRows : p[i] = p[j] => i = j}

\* a data row the run leaves out: csvreader.Read() fails on it, it has fewer
\* than three fields, or extractDomain rejects its email
Offending(i) ==
    \/ ~Parses(i)
    \/ Len(file[i].fields) < 3
    \/ extractDomain(TrimmedEmail(i)) = <<>>

AllTasksDone ==
    /\ src.pc = "done" /\ Closed(emailChan)
    /\ \A w \in 1..numWorkers : wk[w].pc = "done"
    /\ Closed(domains)
    /\ agg.pc = "done" /\ Closed(doneAggregating)

(* C6: a data row that fails to parse, has fewer than three fields or whose
   email extractDomain rejects never aborts the run: once the header has been
   read ProcessFile returns without an error, no task panics, every row has
   been read, the offending rows are in no count and every other data row is
   counted under its domain. *)
C6_RowErrorsNotFatal ==
    /\ pc # "crashed"
    /\ (Returned /\ ~HeaderUnreadable /\ result.err # OpenErr) => result.err = NilErr
    /\ ReturnedOk =>
          /\ pos = Len(file)
          /\ result.TotalCount = Cardinality({i \in DataRows : ~Offending(i)})
          /\ \A i \in DataRows :
                ~Offending(i) => extractDomain(TrimmedEmail(i)) \in DOMAIN domainMap
          /\ \A d \in DOMAIN domainMap :
                domainMap[d] = Cardinality({i \in DataRows :
                                   ~Offending(i) /\ extractDomain(TrimmedEmail(i)) = d})

\* C6's case: a run over an unparsable row followed by a countable one
C6_Witness ==
    /\ ReturnedOk
    /\ Len(file) = 3
    /\ file[2] = BadRow
    /\ ~Offending(3)
    /\ result.TotalCount = 1

(* C7: the map, the total and the report ProcessFile returns are those of the
   rows taken one after the other by a single task, whatever the number of
   workers. *)
C7_WorkerCountIrrelevant ==
    ReturnedOk =>
        /\ domainMap = SequentialReport(file).m
        /\ result.TotalCount = SequentialReport(file).TotalCount
        /\ result.DomainStats = SequentialReport(file).DomainStats

\* C7's case: a run with several workers that counted several rows
C7_Witness == ReturnedOk /\ numWorkers >= 2 /\ result.TotalCount >= 2

(* C8: every run on an input ends with the one report the input determines:
   TotalCount is the number of data rows whose email extractDomain accepts,
   and DomainStats lists, strictly ascending, each extracted domain with the
   number of rows it was extracted from. *)
C8_ReportDetermined ==
    ReturnedOk =>
        /\ result.TotalCount = Cardinality(RowsExtracted)
        /\ StatPairs(result.DomainStats) =
              {<<extractDomain(TrimmedEmail(i)),
                 Cardinality(RowsExtractedTo(extractDomain(TrimmedEmail(i))))>> :
                    i \in RowsExtracted}
        /\ Len(result.DomainStats) = Cardinality(StatPairs(result.DomainStats))
        /\ \A i \in 1..(Len(result.DomainStats) - 1) :
              StrLess(result.DomainStats[i].Name, result.DomainStats[i + 1].Name)

\* C8's case: several workers raced to publish different domains
C8_Witness ==
    /\ ReturnedOk
    /\ numWorkers >= 2
    /\ Len(result.DomainStats) >= 2

(* C9: the map, the total and the report ProcessFile returns are those of
   every rearrangement of the data rows (header kept first). *)
C9_RowOrderIrrelevant ==
    ReturnedOk =>
        \A p \in Rearrangements :
            /\ domainMap = SequentialReport(Rearranged(p)).m
            /\ result.TotalCount = SequentialReport(Rearranged(p)).TotalCount
            /\ result.DomainStats = SequentialReport(Rearranged(p)).DomainStats

\* C9's case: a run over two rows of different domains
C9_Witness ==
    /\ ReturnedOk
    /\ Len(file) = 3
    /\ Cardinality(DOMAIN domainMap) = 2

(* C10: under fair scheduling every run returns, and a run whose header was
   read returns with the Source, every worker and the Aggregator finished and
   the three channels closed; no state short of the return is a deadlock. *)
C10_Terminates ==
    /\ <>(pc = "returned")
    /\ (pc = "make") ~> (ReturnedOk /\ AllTasksDone)
    /\ [](pc = "returned" \/ ENABLED Next)

\* C10's case: a run with several workers has come to its end
C10_Witness ==
    /\ ReturnedOk
    /\ AllTasksDone
    /\ numWorkers >= 2
    /\ result.TotalCount >= 1


-----------------------------------------------------------------------------
(* C11: exactly one header row is consumed and discarded: the Source starts
   with the reader past the first row, every email it publishes is the third
   field of the data row just read, and a run ends with the first row in no
   count, even when its third field is a valid email, and with the second
   row counted when extractDomain accepts its email. *)
C11_HeaderDiscardedOnce ==
    /\ src.pc # "idle" => pos >= 1
    /\ src.pc = "send" => pos \in DataRows /\ src.email = file[pos].fields[3]
    /\ ReturnedOk =>
          /\ result.TotalCount <= Len(file) - 1
          /\ Len(file) = 1 => result.TotalCount = 0 /\ result.DomainStats = <<>>
          /\ (Len(file) >= 2 /\ ~Offending(2)) =>
                extractDomain(TrimmedEmail(2)) \in DOMAIN domainMap
          /\ \A d \in DOMAIN domainMap :
                domainMap[d] = Cardinality({i \in DataRows :
                                   ~Offending(i) /\ extractDomain(TrimmedEmail(i)) = d})

\* C11's case: a header whose third field is a valid email, and one data row
\* of another domain, which alone is counted
C11_Witness ==
    /\ ReturnedOk
    /\ Len(file) = 2
    /\ file[1] = Rec(<<Filler, Filler, <<"a", "@", "b">>>>)
    /\ file[2] = Rec(<<Filler, Filler, <<" ", "b", "@", "A">>>>)
    /\ domainMap = (<<"a">> :> 1)


-----------------------------------------------------------------------------
(* The file the claims expect of writeFile *)

\* the value of a sequence of decimal digits
RECURSIVE DecimalValue(_)
DecimalValue(ds) ==
    IF ds = <<>> THEN 0
    ELSE 10 * DecimalValue(SubSeq(ds, 1, Len(ds) - 1))
         + (CHOOSE d \in 0..9 : Digit(d) = ds[Len(ds)])

Numerals == {ds \in UNION {[1..n -> {Digit(d) : d \in 0..9}] : n \in 1..2} :
                Len(ds) = 1 \/ ds[1] # "0"}

\* <n> in decimal
Decimal(n) == CHOOSE ds \in Numerals : DecimalValue(ds) = n

\* one line "Domain: <name>, Customers: <count>\n" per entry, in order
RECURSIVE DomainLines(_)
DomainLines(stats) ==
    IF stats = <<>> THEN <<>>
    ELSE <<"Domain: ">> \o Head(stats).Name \o <<", Customers: ">>
         \o Decimal(Head(stats).Count) \o <<"\n">> \o DomainLines(Tail(stats))

(* C12: when writeFile returns nil the file holds exactly the line
   "Total number of customers: <TotalCount>\n" followed by one line
   "Domain: <name>, Customers: <count>\n" per DomainStat in the order of
   DomainStats, and nothing else: nothing of what it held before, and for an
   empty report the first line with 0 alone. *)
C12_FileContent ==
    (output.pc = "done" /\ output.err = "nil") =>
        /\ output.disk =
              <<"Total number of customers: ">> \o Decimal(output.domainsCount.TotalCount)
              \o <<"\n">> \o DomainLines(output.domainsCount.DomainStats)
        /\ output.buf = <<>>
        /\ ~output.open
        /\ (output.domainsCount = [DomainStats |-> <<>>, TotalCount |-> 0]) =>
              output.disk = <<"Total number of customers: ", "0", "\n">>

\* C12's case: a report of two domains has been written over an old file
C12_Witness ==
    /\ output.pc = "done"
    /\ output.err = "nil"
    /\ output.domainsCount.TotalCount = 16
    /\ output.domainsCount.DomainStats =
          <<[Name |-> <<"a", "b">>, Count |-> 12], [Name |-> <<"b">>, Count |-> 3]>>
    /\ output.disk = <<"Total number of customers: ", "1", "6", "\n",
                       "Domain: ", "a", "b", ", Customers: ", "1", "2", "\n",
                       "Domain: ", "b", ", Customers: ", "3", "\n">>


-----------------------------------------------------------------------------
(* C13: domains is closed, and is about to be closed, only when the
   wait-group is at zero with the Source and every worker finished; no task
   panics on a closed channel; the Aggregator has not seen the end of its
   input while a worker has not finished. *)
C13_DomainsClosedAfterWorkers ==
    /\ pc # "crashed" /\ src.pc # "panic"
    /\ \A w \in 1..numWorkers : wk[w].pc # "panic"
    /\ (pc = "close" \/ Closed(domains)) =>
          /\ wg = 0
          /\ launched = numWorkers
          /\ src.pc = "done"
          /\ \A w \in 1..numWorkers : wk[w].pc = "done"
    /\ agg.pc = "done" =>
          /\ Closed(domains)
          /\ \A w \in 1..numWorkers : wk[w].pc = "done"

\* C13's case: domains has been closed with domains of several workers still
\* waiting in it
C13_Witness ==
    /\ Closed(domains)
    /\ numWorkers >= 2
    /\ Len(domains.buf) >= 2

(* C14: the orchestrator holds the map and the total (processCsv has returned
   them, createStats reads them) only once the Aggregator has closed
   doneAggregating and left its loop; by then domains is empty, no worker
   holds a domain, every domain sent has been counted, and the total
   returned is the Aggregator's final total. *)
C14_MapReadAfterAggregator ==
    /\ (pc = "stats" \/ ReturnedOk) =>
          /\ agg.pc = "done"
          /\ Closed(doneAggregating)
          /\ domains.buf = <<>>
          /\ \A w \in 1..numWorkers : wk[w].pc = "done"
          /\ totalCustomers = Cardinality(RowsExtracted)
    /\ ReturnedOk => result.TotalCount = totalCustomers

\* C14's case: processCsv has returned a map of several counts to ProcessFile
C14_Witness ==
    /\ pc = "stats"
    /\ totalCustomers >= 2
    /\ numWorkers >= 2

(* C15: each channel is closed at most once and by its owner alone: emailChan
   by the Source, after its last read and with nothing left to send, domains
   by the orchestrator, doneAggregating by the Aggregator; a run that returns
   a report has closed each of them exactly once. *)
C15_ChannelsClosedOnceByOwner ==
    /\ emailChan.closedBy \in {<<>>, <<"source">>}
    /\ domains.closedBy \in {<<>>, <<"orchestrator">>}
    /\ doneAggregating.closedBy \in {<<>>, <<"aggregator">>}
    /\ Closed(emailChan) => src.pc \in {"closed", "done"} /\ pos = Len(file)
    /\ Closed(doneAggregating) => agg.pc = "done"
    /\ ReturnedOk =>
          /\ emailChan.closedBy = <<"source">>
          /\ domains.closedBy = <<"orchestrator">>
          /\ doneAggregating.closedBy = <<"aggregator">>

\* C15's case: a run of several workers has closed the three channels
C15_Witness ==
    /\ ReturnedOk
    /\ numWorkers >= 2
    /\ result.TotalCount >= 1
    /\ Closed(emailChan) /\ Closed(domains) /\ Closed(doneAggregating)


-----------------------------------------------------------------------------
\* the sum of the counts of the keys ks of map m
RECURSIVE SumOver(_, _)
SumOver(m, ks) ==
    IF ks = {} THEN 0
    ELSE LET k == CHOOSE x \in ks : TRUE
         IN m[k] + SumOver(m, ks \ {k})

\* the count of d in m, a key that is absent counting as 0
CountOf(m, d) == IF d \in DOMAIN m THEN m[d] ELSE 0

(* C16: the map and the total change in steps of the Aggregator only: a step
   that changes the map is the Aggregator's domainMap[d]++ for the domain d
   it received, which adds 1 to the count of d and leaves every other key
   and the total as they were; a step that changes the total is the
   Aggregator's *totalCustomers++, which adds 1 and leaves the map as it was;
   and each of these two steps of the Aggregator does make its change. *)
C16_OnlyAggregatorWrites ==
    [][/\ domainMap' # domainMap =>
             /\ agg.pc = "incMap" /\ agg'.pc = "incTotal"
             /\ DOMAIN domainMap' = DOMAIN domainMap \cup {agg.domain}
             /\ domainMap'[agg.domain] = CountOf(domainMap, agg.domain) + 1
             /\ \A d \in DOMAIN domainMap \ {agg.domain} : domainMap'[d] = domainMap[d]
             /\ totalCustomers' = totalCustomers
       /\ totalCustomers' # totalCustomers =>
             /\ agg.pc = "incTotal" /\ agg'.pc = "recv"
             /\ totalCustomers' = totalCustomers + 1
             /\ domainMap' = domainMap
       /\ (agg.pc = "incMap" /\ agg'.pc # "incMap") => domainMap' # domainMap
       /\ (agg.pc = "incTotal" /\ agg'.pc # "incTotal") => totalCustomers' # totalCustomers
      ]_vars

\* C16's case: the Aggregator has just raised the count of a domain it had
\* counted before and has the total still to raise, two workers running
C16_Witness ==
    /\ agg.pc = "incTotal"
    /\ numWorkers >= 2
    /\ domainMap[agg.domain] = 2
    /\ totalCustomers = 1

(* C18: whenever the Aggregator is between two receives, and in what
   ProcessFile returns, the total is the sum of the counts of the map; every
   key of the map has a count of at least 1 and no key is the empty string;
   no step lowers the total or the count of a key. *)
C18_TotalIsSumOfCounts ==
    /\ [](/\ agg.pc \in {"recv", "done"} =>
                totalCustomers = SumOver(domainMap, DOMAIN domainMap)
          /\ ReturnedOk =>
                result.TotalCount = SumOver(domainMap, DOMAIN domainMap)
          /\ \A d \in DOMAIN domainMap : domainMap[d] >= 1 /\ d # <<>>)
    /\ [][/\ totalCustomers' >= totalCustomers
          /\ \A d \in DOMAIN domainMap :
                d \in DOMAIN domainMap' /\ domainMap'[d] >= domainMap[d]
         ]_vars

\* C18's case: the Aggregator waits for its next domain, two rows counted
\* under two domains
C18_Witness ==
    /\ agg.pc = "recv"
    /\ totalCustomers = 2
    /\ Cardinality(DOMAIN domainMap) = 2


-----------------------------------------------------------------------------
(* Backpressure: inputs longer than the pipeline can hold *)

\* the records the pipeline can hold: numWorkers in each channel, one in
\* each worker, one in the Source and one in the Aggregator
Capacity(n) == 3 * n + 2

\* one row more than the largest pipeline holds
FlowRows == Capacity(MaxWorkers) + 1

\* a three-column header and up to FlowRows rows of one valid email
FlowFiles ==
    {<<Rec(<<Filler, Filler, Filler>>)>> \o f :
        f \in UNION {FilesOfLen(n, {Rec(<<Filler, Filler, <<"a", "@", "b">>>>)}) :
                        n \in 0..FlowRows}}

InitFlow == InitWith(FlowFiles)

SpecFlow == InitFlow /\ [][Next]_vars

\* the records between the Source and the Aggregator: buffered in a channel
\* or held by a task that has received or read them and not yet passed them on
InFlight ==
    Len(emailChan.buf) + Len(domains.buf)
    + (IF src.pc = "send" THEN 1 ELSE 0)
    + Cardinality({w \in 1..numWorkers : wk[w].pc = "send"})
    + (IF agg.pc \in {"incMap", "incTotal"} THEN 1 ELSE 0)

(* C17: each of the two channels holds at most numWorkers items, and the
   records in flight between the Source and the Aggregator never exceed
   3 * numWorkers + 2, however long the input; a producer that wants to send
   into a full channel does not move, and the channel does not grow, until a
   consumer has received from it. *)
C17_Backpressure ==
    /\ [](/\ Len(emailChan.buf) <= numWorkers
          /\ Len(domains.buf) <= numWorkers
          /\ InFlight <= Capacity(numWorkers))
    /\ [][/\ (src.pc = "send" /\ Len(emailChan.buf) = numWorkers) =>
                /\ src' = src
                /\ Len(emailChan'.buf) <= Len(emailChan.buf)
          /\ \A w \in 1..numWorkers :
                (wk[w].pc = "send" /\ Len(domains.buf) = numWorkers) =>
                   /\ wk'[w] = wk[w]
                   /\ Len(domains'.buf) <= Len(domains.buf)
         ]_vars

\* C17's case: the pipeline of two workers is full (both channels full, every
\* task holding a record, the Source blocked) and rows are still unread
C17_Witness ==
    /\ numWorkers >= 2
    /\ InFlight = Capacity(numWorkers)
    /\ Len(emailChan.buf) = numWorkers
    /\ src.pc = "send"
    /\ pos < Len(file)


-----------------------------------------------------------------------------
(* The header and the rows after it *)

\* the header rows csvreader.Read() returns without an error
ReadableHeaders == {h \in HeaderRows : h.kind = "rec"}

\* file under the header h
WithHeader(h) == <<h>> \o Tail(file)

\* the data rows that parse on their own and have at least three fields
RowsWithThirdField ==
    {i \in DataRows : file[i].kind = "rec" /\ Len(file[i].fields) > EMAIL_IDX}

(* C19: whether a data row is counted depends on that row alone: the rows
   ProcessFile counts are the data rows that parse, have at least three
   fields and an email extractDomain accepts, whatever the header; and the
   report is that of the same data rows under any other readable header. *)
C19_HeaderIrrelevant ==
    (ReturnedOk /\ file # <<>>) =>
        /\ result.TotalCount =
              Cardinality({i \in RowsWithThirdField :
                  extractDomain(TrimSpace(file[i].fields[EMAIL_IDX + 1])) # <<>>})
        /\ \A h \in ReadableHeaders :
              /\ result.TotalCount = SequentialReport(WithHeader(h)).TotalCount
              /\ result.DomainStats = SequentialReport(WithHeader(h)).DomainStats


-----------------------------------------------------------------------------
(* Read errors that persist *)

\* the Source is about to read a row and the read fails with an error other
\* than io.EOF
ReadFails == src.pc = "read" /\ csvRead.err \notin {"nil", "EOF"}

(* C20: when the Source's read of a data row fails with an error other than
   end of stream, even one the stream returns again on every retry, the
   Source eventually stops and closes the email channel, and ProcessFile
   eventually returns or the program fails outright: the run does not hang. *)
C20_ReadErrorDoesNotHang ==
    ReadFails ~> (/\ src.pc \in {"done", "panic"}
                  /\ Closed(emailChan)
                  /\ pc \in {"returned", "crashed"})

====
